---- MODULE Spec2Model ----
(***************************************************************************)
(* Model of pulse.py: the G-code rewriter that drops M104/M109 lines and   *)
(* inserts fan pulses (M106 / G4 / M107) every TRIGGER_DISTANCE_MM of      *)
(* depositing travel.                                                      *)
(*                                                                         *)
(* Representation.  A line of text is a sequence of tokens.  A token is    *)
(* either one character, Ch(c) = <<c>>, or one decimal number as written   *)
(* in the text, Num(v, d) = <<"#", v, d>>: the number of value v / Dec5    *)
(* written with d digits after the point.  Floats are modelled in fixed    *)
(* point, as integer multiples of 1 / Dec5 mm; an interpolated value is    *)
(* an exact fraction <<numerator, denominator>> until it is formatted.     *)
(* The variables prev_acc, prev_len, prev_pos and total_dist record the    *)
(* state at the head of the last iteration and the distance added so far;  *)
(* the code does not keep them.                                            *)
(***************************************************************************)
EXTENDS Integers, Sequences, FiniteSets, TLC

VARIABLES
    pc,                    \* "open" | "loop" | "done" | "error"
    lines,                 \* the lines of the file the loop has iterated over
    output_lines,          \* the output buffer
    last_pos,              \* dict axis -> value
    accumulated_distance,  \* distance since the last pulse
    start,                 \* local of the motion branch: position before the line
    end,                   \* local of the motion branch: merged position
    move_type,             \* local of the motion branch
    prev_acc,              \* accumulated_distance at the head of the last iteration
    prev_len,              \* Len(output_lines) at the head of the last iteration
    prev_pos,              \* last_pos at the head of the last iteration
    total_dist,            \* sum of the dist_xy added to the accumulator
    written,               \* the lines written back to the file, <<>> before
    wopen                  \* open(filepath, 'w') has run: the file was truncated

vars == <<pc, lines, output_lines, last_pos, accumulated_distance, start, end,
          move_type, prev_acc, prev_len, prev_pos, total_dist, written,
          wopen>>

\* ------------------------------------------------------------------ numbers

\* f"{v:.5f}": five digits after the point; values are multiples of 1/Dec5.
Dec5 == 100000

TRIGGER_DISTANCE_MM == 1 * Dec5

FAN_ON_TIME_MS == 200

\* Length of the longest file the model runs on.
MaxLines == 3

Abs(x) == IF x < 0 THEN -x ELSE x

MinOf(S) == CHOOSE x \in S : \A y \in S : x <= y

MaxOf(S) == CHOOSE x \in S : \A y \in S : x >= y

\* ------------------------------------------------------------------- text

Ch(c) == <<c>>

Num(v, d) == <<"#", v, d>>

Str(s) == [i \in 1..Len(s) |-> Ch(s[i])]

IsSpace(t) == t[1] \in {" ", "\n", "\r", "\t"}

RECURSIVE lstrip(_)
lstrip(s) == IF s # <<>> /\ IsSpace(s[1]) THEN lstrip(Tail(s)) ELSE s

RECURSIVE rstrip(_)
rstrip(s) == IF s # <<>> /\ IsSpace(s[Len(s)]) THEN rstrip(SubSeq(s, 1, Len(s) - 1)) ELSE s

\* str.strip(): leading and trailing whitespace removed.
strip(s) == rstrip(lstrip(s))

\* str.startswith(tuple of prefixes), case-sensitive.
startswith(s, prefixes) ==
    \E p \in prefixes :
        /\ Len(s) >= Len(p)
        /\ \A i \in 1..Len(p) : s[i][1] = p[i]

\* sub in s, case-sensitive.
Contains(s, sub) ==
    \E i \in 1..(Len(s) - Len(sub) + 1) :
        \A j \in 1..Len(sub) : s[i + j - 1][1] = sub[j]

\* re.IGNORECASE on the letters of the model's alphabet.
Upper(c) ==
    CASE c = "g" -> "G"
      [] c = "m" -> "M"
      [] c = "x" -> "X"
      [] c = "y" -> "Y"
      [] c = "e" -> "E"
      [] c = "f" -> "F"
      [] OTHER -> c

\* Mutant of temperature_re_match: the match is case-sensitive.
temperature_re_match_cased(s) ==
    /\ Len(s) >= 4
    /\ [i \in 1..4 |-> s[i][1]] \in {<<"M", "1", "0", "4">>, <<"M", "1", "0", "9">>}

\* Mutant of temperature_re_match: only M104 is recognised.
temperature_re_match_m104(s) ==
    /\ Len(s) >= 4
    /\ [i \in 1..4 |-> Upper(s[i][1])] = <<"M", "1", "0", "4">>

\* temperature_re.match(s): ^(M104|M109), ignoring case.
temperature_re_match(s) ==
    /\ Len(s) >= 4
    /\ [i \in 1..4 |-> Upper(s[i][1])] \in {<<"M", "1", "0", "4">>, <<"M", "1", "0", "9">>}

Axes == {"X", "Y", "E", "F"}

\* re.search(axis + number): positions of the axis letter followed by a number.
AxisMatch(s, axis) == {i \in 1..(Len(s) - 1) : s[i][1] = axis /\ s[i + 1][1] = "#"}

\* extract_coords(line): the first number after each axis letter present.
extract_coords(s) ==
    [a \in {x \in Axes : AxisMatch(s, x) # {}} |-> s[MinOf(AxisMatch(s, a)) + 1][2]]

\* Mutant of Update: a key already present keeps its value (setdefault).
UpdateKeepOld(d, c) ==
    [k \in (DOMAIN d) \cup (DOMAIN c) |-> IF k \in DOMAIN d THEN d[k] ELSE c[k]]

\* dict.update
Update(d, c) ==
    [k \in (DOMAIN d) \cup (DOMAIN c) |-> IF k \in DOMAIN c THEN c[k] ELSE d[k]]

\* ---------------------------------------------------------------- geometry

\* Integer square root by Newton's iteration from the guess x >= sqrt(n).
RECURSIVE ISqrt(_, _)
ISqrt(n, x) ==
    IF x = 0 THEN 0
    ELSE LET y == (x + n \div x) \div 2
         IN  IF y >= x THEN x ELSE ISqrt(n, y)

\* math.hypot, to 1/1000 mm (exact on axis-aligned and Pythagorean moves).
hypot(dx, dy) ==
    LET a == Abs(dx) \div 100
        b == Abs(dy) \div 100
    IN  100 * ISqrt(a * a + b * b, a + b)

distance_xy(p1, p2) == hypot(p2[1] - p1[1], p2[2] - p1[2])

\* Mutant of interpolate: the end points are taken in the wrong order.
interpolateFromEnd(a, b, t) == <<b * t[2] + (a - b) * t[1], t[2]>>

\* a + (b - a) * t for t = t[1] / t[2], as an exact fraction.
interpolate(a, b, t) == <<a * t[2] + (b - a) * t[1], t[2]>>

None == "None"

\* Mutant of segment_move: the fractions run over range(segments), from 0.
segment_move_from0(st, en, segs) ==
    [i \in 1..segs |->
        LET t == <<i - 1, segs>>
        IN  [X |-> interpolate(st["X"], en["X"], t),
             Y |-> interpolate(st["Y"], en["Y"], t),
             E |-> interpolate(st["E"], en["E"], t),
             F |-> None]]

segment_move(st, en, segs) ==
    [i \in 1..segs |->
        LET t == <<i, segs>>
        IN  [X |-> interpolate(st["X"], en["X"], t),
             Y |-> interpolate(st["Y"], en["Y"], t),
             E |-> interpolate(st["E"], en["E"], t),
             F |-> IF "F" \in DOMAIN en THEN en["F"]
                   ELSE IF "F" \in DOMAIN st THEN st["F"] ELSE None]]

\* ---------------------------------------------------------------- emission

\* {q:.5f}: the fraction q rounded to the nearest 1/Dec5, ties to even.
Fmt5(q) ==
    LET twice == 2 * q[1] + q[2]
        fl == twice \div (2 * q[2])
    IN  Num(IF twice % (2 * q[2]) = 0 /\ fl % 2 = 1 THEN fl - 1 ELSE fl, 5)

\* Mutant of MoveLine: the E word is left out.
MoveLineNoE(mt, x, y, e) ==
    Str(mt) \o <<Ch(" "), Ch("X"), Fmt5(x), Ch(" "), Ch("Y"), Fmt5(y), Ch("\n")>>

\* f"{move_type} X{x:.5f} Y{y:.5f} E{e:.5f}\n"
MoveLine(mt, x, y, e) ==
    Str(mt) \o <<Ch(" "), Ch("X"), Fmt5(x), Ch(" "), Ch("Y"), Fmt5(y),
                 Ch(" "), Ch("E"), Fmt5(e), Ch("\n")>>

\* "M106 S255 ; ON\n"
FanOnLine == Str(<<"M", "1", "0", "6", " ", "S", "2", "5", "5", " ", ";", " ", "O", "N", "\n">>)

\* f"G4 P{FAN_ON_TIME_MS} ; Wait\n"
DwellLine ==
    Str(<<"G", "4", " ", "P">>) \o <<Num(FAN_ON_TIME_MS * Dec5, 0)>>
        \o Str(<<" ", ";", " ", "W", "a", "i", "t", "\n">>)

\* "M107 ; OFF\n"
FanOffLine == Str(<<"M", "1", "0", "7", " ", ";", " ", "O", "F", "F", "\n">>)

\* Mutant of PulseGroup: the fan is switched off before the dwell.
PulseGroupOffFirst(mt, seg) ==
    <<MoveLine(mt, seg.X, seg.Y, seg.E), FanOnLine, FanOffLine, DwellLine>>

\* One pass of the body of the for-loop over segment_move.
PulseGroup(mt, seg) ==
    <<MoveLine(mt, seg.X, seg.Y, seg.E), FanOnLine, DwellLine, FanOffLine>>

RECURSIVE PulseGroups(_, _, _)
PulseGroups(mt, segs, i) ==
    IF i > Len(segs) THEN <<>>
    ELSE PulseGroup(mt, segs[i]) \o PulseGroups(mt, segs, i + 1)

\* Mutant of Segments: one pulse per move that reaches the threshold.
SegmentsOne(acc) == IF acc >= TRIGGER_DISTANCE_MM THEN 1 ELSE 0

\* Mutant of Segments: the threshold test is strict.
SegmentsStrict(acc) ==
    IF acc > TRIGGER_DISTANCE_MM THEN acc \div TRIGGER_DISTANCE_MM ELSE 0

\* int(accumulated_distance // TRIGGER_DISTANCE_MM), when the threshold is reached.
Segments(acc) ==
    IF acc >= TRIGGER_DISTANCE_MM THEN acc \div TRIGGER_DISTANCE_MM ELSE 0

\* Mutant of Renew: the accumulator is reset when a pulse fires.
RenewReset(acc, segs) == IF segs > 0 THEN 0 ELSE acc

\* Mutant of Renew: the threshold is subtracted once, after the loop.
RenewOnce(acc, segs) == IF segs > 0 THEN acc - TRIGGER_DISTANCE_MM ELSE acc

\* Mutant of Renew: the last subtraction is missed.
RenewLessOne(acc, segs) == IF segs > 0 THEN acc - (segs - 1) * TRIGGER_DISTANCE_MM ELSE acc

\* accumulated_distance -= TRIGGER_DISTANCE_MM, once per segment.
Renew(acc, segs) == acc - segs * TRIGGER_DISTANCE_MM

\* move_type = 'G1' if 'G1' in stripped else 'G0'
MoveTypeOf(stripped) == IF Contains(stripped, <<"G", "1">>) THEN <<"G", "1">> ELSE <<"G", "0">>

\* not stripped.startswith(('G0', 'G1')) or 'E' not in stripped
IsPassThrough(stripped) ==
    \/ ~startswith(stripped, {<<"G", "0">>, <<"G", "1">>})
    \/ ~Contains(stripped, <<"E">>)

\* Mutant of IsExtruding: an unchanged E counts as extruding.
IsExtrudingOrEqual(st, en) == en["E"] >= st["E"]

\* extruding = end['E'] > start['E']
IsExtruding(st, en) == en["E"] > st["E"]

\* Mutant of Emit: the new lines are put in front of the buffer.
EmitFront(out, new) == new \o out

\* output_lines.append, once per line of new.
Emit(out, new) == out \o new

\* Mutant of Expansion: the end move is left out when pulses were emitted.
ExpansionNoFinal(mt, st, en, acc) ==
    IF Segments(acc) > 0
    THEN PulseGroups(mt, segment_move(st, en, Segments(acc)), 1)
    ELSE <<MoveLine(mt, <<en["X"], 1>>, <<en["Y"], 1>>, <<en["E"], 1>>)>>

\* Mutant of Expansion: the end move repeats the tracked feed rate.
ExpansionWithF(mt, st, en, acc) ==
    PulseGroups(mt, segment_move(st, en, Segments(acc)), 1)
        \o <<IF "F" \in DOMAIN en
             THEN Str(mt) \o <<Ch(" "), Ch("X"), Fmt5(<<en["X"], 1>>),
                               Ch(" "), Ch("Y"), Fmt5(<<en["Y"], 1>>),
                               Ch(" "), Ch("E"), Fmt5(<<en["E"], 1>>),
                               Ch(" "), Ch("F"), Fmt5(<<en["F"], 1>>), Ch("\n")>>
             ELSE MoveLine(mt, <<en["X"], 1>>, <<en["Y"], 1>>, <<en["E"], 1>>)>>

\* The lines a depositing move appends.
Expansion(mt, st, en, acc) ==
    PulseGroups(mt, segment_move(st, en, Segments(acc)), 1)
        \o <<MoveLine(mt, <<en["X"], 1>>, <<en["Y"], 1>>, <<en["E"], 1>>)>>

\* ---------------------------------------------------------------- whole run

\* The body of the for-loop as a function of the tracker state
\* [out, pos, acc] and the line.
LineStep(st, line) ==
    LET stripped == strip(line)
        coords == extract_coords(stripped)
        mt == MoveTypeOf(stripped)
        en == Update(st.pos, coords)
        dist_xy == distance_xy(<<st.pos["X"], st.pos["Y"]>>, <<en["X"], en["Y"]>>)
        acc == st.acc + dist_xy
    IN  IF temperature_re_match(stripped) THEN st
        ELSE IF IsPassThrough(stripped)
             THEN [out |-> Emit(st.out, <<line>>),
                   pos |-> Update(st.pos, extract_coords(line)),
                   acc |-> st.acc]
             ELSE IF IsExtruding(st.pos, en)
                  THEN [out |-> Emit(st.out, Expansion(mt, st.pos, en, acc)),
                        pos |-> Update(st.pos, coords),
                        acc |-> Renew(acc, Segments(acc))]
                  ELSE [out |-> Emit(st.out, <<line>>),
                        pos |-> Update(st.pos, coords),
                        acc |-> st.acc]

RECURSIVE ProcessFrom(_, _, _)
ProcessFrom(ls, i, st) ==
    IF i > Len(ls) THEN st ELSE ProcessFrom(ls, i + 1, LineStep(st, ls[i]))

\* process_gcode on a file whose lines are ls: the final output buffer,
\* tracked position and accumulator.
process_gcode(ls) ==
    ProcessFrom(ls, 1, [out |-> <<>>, pos |-> [k \in {"X", "Y", "E"} |-> 0], acc |-> 0])

\* ------------------------------------------------------------------- input

\* " X0.6": an axis word whose number is written with one decimal.
Arg(axis, tenths) == <<Ch(" "), Ch(axis), Num(tenths * (Dec5 \div 10), 1)>>

NL == <<Ch("\n")>>

G0 == <<"G", "0">>

G1 == <<"G", "1">>

\* The lines a file of the model is made of.
InputLines == {
    Str(G1) \o Arg("X", 6) \o Arg("Y", 8) \o Arg("E", 10) \o NL,
    Str(G1) \o Arg("X", 15) \o Arg("Y", 8) \o Arg("E", 20) \o NL,
    Str(G1) \o Arg("X", 15) \o Arg("E", 10) \o NL,
    Str(G1) \o Arg("E", 20) \o NL,
    Str(G1) \o Arg("X", 0) \o Arg("Y", 0) \o Arg("E", 30) \o Arg("F", 15000) \o NL,
    Str(G0) \o Arg("X", 15) \o Arg("Y", 0) \o Arg("E", 20) \o Str(<<" ", ";", " ", "G", "1">>) \o NL,
    Str(G0) \o Arg("X", 6) \o Arg("E", 10) \o NL,
    Str(<<"g", "1">>) \o Arg("X", 15) \o Arg("Y", 8) \o Arg("E", 20) \o NL,
    Str(G1) \o Arg("X", 0) \o Arg("Y", 0) \o NL,
    Str(G1) \o Arg("X", 15) \o Arg("Y", 8) \o Arg("F", 30000) \o Str(<<" ", ";", " ", "E">>) \o NL,
    Str(<<"G", "9", "2">>) \o Arg("E", 0) \o NL,
    Str(<<"M", "1", "0", "4", " ", "S", "2", "0", "0">>) \o NL,
    Str(<<"m", "1", "0", "9">>) \o Arg("X", 15) \o Str(<<" ", "S", "2", "1", "0">>) \o NL,
    Str(G1) \o Arg("X", 100) \o Arg("Y", 0) \o Arg("E", 10) \o NL,
    Str(<<"M", "8", "4">>) }

\* readlines(): only the last line of a file can lack its terminator.
CanAppend(ls) == IF ls = <<>> THEN TRUE ELSE ls[Len(ls)][Len(ls[Len(ls)])][1] = "\n"

\* ----------------------------------------------------------------- actions

\* Mutant of WriteOpened: the file is opened for writing before the loop.
WriteOpenedEarly(p) == p \in {"loop", "done"}

\* Whether open(filepath, 'w') has run when control reaches p: it is the
\* statement after the loop, which no exception path reaches.
WriteOpened(p) == p = "done"

Init ==
    /\ pc = "open"
    /\ lines = <<>>
    /\ output_lines = <<>>
    /\ last_pos = <<>>
    /\ accumulated_distance = 0
    /\ start = <<>>
    /\ end = <<>>
    /\ move_type = <<>>
    /\ prev_acc = 0
    /\ prev_len = 0
    /\ prev_pos = <<>>
    /\ total_dist = 0
    /\ written = <<>>
    /\ wopen = FALSE

\* open(filepath, 'r') succeeds; the buffers and the tracker are created.
OpenRead ==
    /\ pc = "open"
    /\ pc' = "loop"
    /\ output_lines' = <<>>
    /\ last_pos' = [k \in {"X", "Y", "E"} |-> 0]
    /\ accumulated_distance' = 0
    /\ wopen' = WriteOpened("loop")
    /\ UNCHANGED <<lines, start, end, move_type, prev_acc, prev_len, prev_pos,
                   total_dist, written>>

\* open(filepath, 'r') raises: __main__ reports the error and exits.
OpenFail ==
    /\ pc = "open"
    /\ pc' = "error"
    /\ wopen' = WriteOpened("error")
    /\ UNCHANGED <<lines, output_lines, last_pos, accumulated_distance, start, end,
                   move_type, prev_acc, prev_len, prev_pos, total_dist, written>>

\* The head of one iteration of "for line in lines".
Iterate(line) ==
    /\ pc = "loop"
    /\ Len(lines) < MaxLines
    /\ CanAppend(lines)
    /\ lines' = Append(lines, line)
    /\ prev_acc' = accumulated_distance
    /\ prev_len' = Len(output_lines)
    /\ prev_pos' = last_pos
    /\ UNCHANGED <<pc, written, wopen>>

\* if temperature_re.match(stripped): continue
SkipThermal(line) ==
    /\ Iterate(line)
    /\ temperature_re_match(strip(line))
    /\ UNCHANGED <<output_lines, last_pos, accumulated_distance, start, end,
                   move_type, total_dist>>

\* The pass-through branch: the line is copied and its coordinates tracked.
PassThrough(line) ==
    /\ Iterate(line)
    /\ ~temperature_re_match(strip(line))
    /\ IsPassThrough(strip(line))
    /\ output_lines' = Emit(output_lines, <<line>>)
    /\ last_pos' = Update(last_pos, extract_coords(line))
    /\ UNCHANGED <<accumulated_distance, start, end, move_type, total_dist>>

\* The motion branch.
Motion(line) ==
    LET stripped == strip(line)
        coords == extract_coords(stripped)
        mt == MoveTypeOf(stripped)
        st == last_pos
        en == Update(st, coords)
        dist_xy == distance_xy(<<st["X"], st["Y"]>>, <<en["X"], en["Y"]>>)
        extruding == IsExtruding(st, en)
        acc == accumulated_distance + dist_xy
    IN  /\ Iterate(line)
        /\ ~temperature_re_match(stripped)
        /\ ~IsPassThrough(stripped)
        /\ start' = st
        /\ end' = en
        /\ move_type' = mt
        /\ IF extruding
           THEN /\ output_lines' = Emit(output_lines, Expansion(mt, st, en, acc))
                /\ accumulated_distance' = Renew(acc, Segments(acc))
                /\ total_dist' = total_dist + dist_xy
           ELSE /\ output_lines' = Emit(output_lines, <<line>>)
                /\ UNCHANGED <<accumulated_distance, total_dist>>
        /\ last_pos' = Update(last_pos, coords)

\* An exception raised in the loop body leaves process_gcode before line 90
\* and is reported by __main__.
ProcessFail ==
    /\ pc = "loop"
    /\ pc' = "error"
    /\ wopen' = WriteOpened("error")
    /\ UNCHANGED <<lines, output_lines, last_pos, accumulated_distance, start, end,
                   move_type, prev_acc, prev_len, prev_pos, total_dist, written>>

\* open(filepath, 'w'); f.writelines(output_lines)
WriteBack ==
    /\ pc = "loop"
    /\ pc' = "done"
    /\ wopen' = WriteOpened("done")
    /\ written' = output_lines
    /\ UNCHANGED <<lines, output_lines, last_pos, accumulated_distance, start, end,
                   move_type, prev_acc, prev_len, prev_pos, total_dist>>

Next ==
    \/ OpenRead
    \/ OpenFail
    \/ \E line \in InputLines : SkipThermal(line)
    \/ \E line \in InputLines : PassThrough(line)
    \/ \E line \in InputLines : Motion(line)
    \/ ProcessFail
    \/ WriteBack

Spec == Init /\ [][Next]_vars

\* ------------------------------------------------- vocabulary of the claims

\* At least one line has been processed.
Processed == pc \in {"loop", "done"} /\ lines # <<>>

\* The line processed last.
CurLine == lines[Len(lines)]

\* What the line processed last added to the output.
Contribution == SubSeq(output_lines, prev_len + 1, Len(output_lines))

\* The line begins with M104 or M109 in any letter case.
ThermalPrefix(line) ==
    LET s == strip(line)
    IN  /\ Len(s) >= 4
        /\ s[1][1] \in {"M", "m"}
        /\ s[2][1] = "1"
        /\ s[3][1] = "0"
        /\ s[4][1] \in {"4", "9"}

\* The two leading characters of the line.
Lead2(line) ==
    LET s == strip(line) IN IF Len(s) >= 2 THEN <<s[1][1], s[2][1]>> ELSE <<>>

\* The line carries an E parameter.
HasE(line) == AxisMatch(strip(line), "E") # {}

\* The position the line processed last moves to.
CurEnd == Update(prev_pos, extract_coords(CurLine))

\* Planar displacement of the line processed last.
CurDist == distance_xy(<<prev_pos["X"], prev_pos["Y"]>>, <<CurEnd["X"], CurEnd["Y"]>>)

\* The line processed last is a G0/G1 line with an E parameter.
CurMotionE == Processed /\ Lead2(CurLine) \in {G0, G1} /\ HasE(CurLine)

\* The line processed last is a depositing move.
CurDepositing == CurMotionE /\ CurEnd["E"] > prev_pos["E"]

\* Crossing count of the line processed last.
CurN == (prev_acc + CurDist) \div TRIGGER_DISTANCE_MM

\* Number of on / dwell / off triplets in a sequence of lines.
Pulses(out) ==
    Cardinality({i \in 1..(Len(out) - 2) :
        out[i] = FanOnLine /\ out[i + 1] = DwellLine /\ out[i + 2] = FanOffLine})

\* The X, Y, E position (x, y, e).
PointXYE(x, y, e) ==
    [k \in {"X", "Y", "E"} |-> CASE k = "X" -> x [] k = "Y" -> y [] k = "E" -> e]

\* The X, Y, E part of a position.
XYE(pos) == PointXYE(pos["X"], pos["Y"], pos["E"])

\* The line is a G0/G1 command with exactly the parameters X, Y and E.
IsMoveLine(line) == Lead2(line) \in {G0, G1} /\ DOMAIN extract_coords(line) = {"X", "Y", "E"}

\* "G1 X10.0 Y0.0 E1.0": the move from the origin to (10, 0, E=1).
BoundaryMove == Str(G1) \o Arg("X", 100) \o Arg("Y", 0) \o Arg("E", 10) \o NL

\* ------------------------------------------------------------------ claims

\* C1: after any sequence of input lines the number of pulses emitted is
\* floor(S / TRIGGER_DISTANCE_MM), S the sum of the planar displacements of
\* the depositing moves, however that distance is split into lines.
C1_DistanceRenewal ==
    pc \in {"loop", "done"} => Pulses(output_lines) = total_dist \div TRIGGER_DISTANCE_MM

\* C1 witness: a move shorter than the threshold fires a pulse by completing
\* the distance earlier moves began, and it is not the first pulse.
C1_Witness ==
    /\ CurDepositing
    /\ CurDist < TRIGGER_DISTANCE_MM
    /\ Pulses(Contribution) = 1
    /\ Pulses(output_lines) >= 2

\* C2: a G0/G1 line with an E parameter whose end E is not above the start E
\* is copied unchanged, emits no pulse and leaves the accumulator as it was.
C2_NonExtrudingPassthrough ==
    (CurMotionE /\ CurEnd["E"] <= prev_pos["E"]) =>
        /\ Contribution = <<CurLine>>
        /\ Pulses(Contribution) = 0
        /\ accumulated_distance = prev_acc

\* C2 witness: such a line that moves in the plane, once with E unchanged,
\* while the accumulator holds a remainder.
C2_Witness ==
    /\ CurMotionE
    /\ CurEnd["E"] = prev_pos["E"]
    /\ CurDist > 0
    /\ prev_acc > 0

\* C3: a line beginning with M104 or M109 in any letter case adds nothing to
\* the output, no such line is in the output, and every other line adds
\* something.
C3_ThermalElision ==
    Processed =>
        /\ ThermalPrefix(CurLine) => Len(output_lines) = prev_len
        /\ ~ThermalPrefix(CurLine) => Len(output_lines) > prev_len
        /\ \A i \in 1..Len(output_lines) : ~ThermalPrefix(output_lines[i])

\* C3 witness: a lower-case thermal line dropped between other lines.
C3_Witness ==
    /\ Processed
    /\ Len(lines) >= 3
    /\ ThermalPrefix(lines[2])
    /\ lines[2][1][1] = "m"
    /\ ~ThermalPrefix(lines[1])
    /\ ~ThermalPrefix(lines[3])
    /\ Len(output_lines) >= 2

\* C4 (as claimed): a depositing line whose leading token is lower-case g0 or
\* g1 is rewritten like its upper-case form: its displacement is added to the
\* accumulator and its output is the pulses and the end-move line.
C4_LowerCaseMotion ==
    (/\ Processed
     /\ Lead2(CurLine) \in {<<"g", "0">>, <<"g", "1">>}
     /\ HasE(CurLine)
     /\ CurEnd["E"] > prev_pos["E"]) =>
        /\ Contribution # <<CurLine>>
        /\ Len(Contribution) = 4 * CurN + 1
        /\ accumulated_distance = prev_acc + CurDist - CurN * TRIGGER_DISTANCE_MM

\* C5: a depositing move with crossing count N adds exactly 4N + 1 lines, the
\* last a motion command to the end position, after the N pulse groups, also
\* when N = 0.
C5_FinalEndMove ==
    CurDepositing =>
        /\ Len(Contribution) = 4 * CurN + 1
        /\ IsMoveLine(Contribution[4 * CurN + 1])
        /\ extract_coords(Contribution[4 * CurN + 1]) = XYE(CurEnd)
        /\ \A i \in 1..CurN : Contribution[4 * i] = FanOffLine

\* C5 witness: a depositing move that crosses no threshold and moves.
C5_Witness == CurDepositing /\ CurN = 0 /\ CurDist > 0

\* C6: each of the N pulse groups is move, M106, G4 P<duration>, M107 in this
\* order; in the whole output every M106 is followed by G4 then M107, and
\* there are as many M106 as M107.
C6_PulseOrdering ==
    /\ CurDepositing =>
          \A i \in 1..CurN :
              /\ 4 * i <= Len(Contribution)
              /\ IsMoveLine(Contribution[4 * i - 3])
              /\ Contribution[4 * i - 2] = FanOnLine
              /\ Contribution[4 * i - 1] = DwellLine
              /\ Contribution[4 * i] = FanOffLine
    /\ \A j \in 1..Len(output_lines) :
          output_lines[j] = FanOnLine =>
              /\ j + 2 <= Len(output_lines)
              /\ output_lines[j + 1] = DwellLine
              /\ output_lines[j + 2] = FanOffLine
    /\ Cardinality({j \in 1..Len(output_lines) : output_lines[j] = FanOnLine})
          = Cardinality({j \in 1..Len(output_lines) : output_lines[j] = FanOffLine})
    /\ DwellLine[5] = Num(FAN_ON_TIME_MS * Dec5, 0)

\* C6 witness: a move segmented into at least two pulse groups after earlier
\* pulses.
C6_Witness == CurDepositing /\ CurN >= 2 /\ Pulses(output_lines) > CurN

\* C7 (as claimed): every motion command emitted for a depositing move has the
\* command code of the leading token of the input line.
C7_SameCommandCode ==
    CurDepositing =>
        \A j \in 1..Len(Contribution) :
            j % 4 = 1 => Lead2(Contribution[j]) = Lead2(CurLine)

\* C8: with N >= 1 the last intermediate point is the end position, so the
\* last pulse's move line and the final end-move line target the same point.
C8_InterpolationBoundary ==
    (CurDepositing /\ CurN >= 1) =>
        /\ Len(Contribution) = 4 * CurN + 1
        /\ extract_coords(Contribution[4 * CurN - 3]) = XYE(CurEnd)
        /\ Contribution[4 * CurN - 3] = Contribution[4 * CurN + 1]

\* C8 witness: a move with exactly one pulse that changes X, Y and E.
C8_Witness ==
    /\ CurDepositing
    /\ CurN = 1
    /\ CurEnd["X"] # prev_pos["X"]
    /\ CurEnd["Y"] # prev_pos["Y"]

\* C9 (as claimed): the move from (0, 0, E=0) to (10, 0, E=1), alone, yields
\* exactly one pulse at (10, 0, E=1) and then the end move to (10, 0, E=1).
C9_OnePulse ==
    (pc \in {"loop", "done"} /\ lines = <<BoundaryMove>>) =>
        /\ Pulses(output_lines) = 1
        /\ Len(output_lines) = 5
        /\ extract_coords(output_lines[1]) = PointXYE(10 * Dec5, 0, 1 * Dec5)
        /\ extract_coords(output_lines[Len(output_lines)]) = PointXYE(10 * Dec5, 0, 1 * Dec5)

\* C9 (amended): that move yields exactly ten pulses, at (i, 0, E=i/10) for
\* i = 1..10, the last at (10, 0, E=1), and then the end move to (10, 0, E=1).
C9_TenPulses ==
    (pc \in {"loop", "done"} /\ lines = <<BoundaryMove>>) =>
        /\ Pulses(output_lines) = 10
        /\ Len(output_lines) = 41
        /\ \A i \in 1..10 :
              extract_coords(output_lines[4 * i - 3]) = PointXYE(i * Dec5, 0, i * (Dec5 \div 10))
        /\ extract_coords(output_lines[37]) = PointXYE(10 * Dec5, 0, 1 * Dec5)
        /\ extract_coords(output_lines[41]) = PointXYE(10 * Dec5, 0, 1 * Dec5)

\* C9 witness: the file is that one move, processed from the initial state.
C9_Witness == pc = "loop" /\ lines = <<BoundaryMove>> /\ prev_pos = PointXYE(0, 0, 0)

\* C10: each line's contribution is appended after everything earlier lines
\* contributed: nothing for a thermal line, the 4N + 1 lines of the expansion
\* for a depositing move, the line itself with its terminator otherwise; the
\* buffer is written back in that order.
C10_OutputOrder ==
    [][/\ Len(lines') = Len(lines) + 1 =>
            LET line == lines'[Len(lines')]
                added == SubSeq(output_lines', Len(output_lines) + 1, Len(output_lines'))
                en == Update(last_pos, extract_coords(line))
                n == (accumulated_distance
                        + distance_xy(<<last_pos["X"], last_pos["Y"]>>, <<en["X"], en["Y"]>>))
                     \div TRIGGER_DISTANCE_MM
            IN  /\ Len(output_lines') >= Len(output_lines)
                /\ SubSeq(output_lines', 1, Len(output_lines)) = output_lines
                /\ IF ThermalPrefix(line) THEN added = <<>>
                   ELSE IF Lead2(line) \in {G0, G1} /\ HasE(line) /\ en["E"] > last_pos["E"]
                        THEN /\ Len(added) = 4 * n + 1
                             /\ Pulses(added) = n
                             /\ extract_coords(added[4 * n + 1]) = XYE(en)
                        ELSE added = <<line>>
       /\ pc' = "done" => written' = output_lines
      ]_vars

\* C10 witness: a pass-through line, a dropped thermal line and an expanded
\* depositing move, in this order.
C10_Witness ==
    /\ Processed
    /\ Len(lines) = 3
    /\ ~ThermalPrefix(lines[1])
    /\ output_lines[1] = lines[1]
    /\ ThermalPrefix(lines[2])
    /\ CurDepositing
    /\ CurN >= 1
    /\ Len(output_lines) = 1 + 4 * CurN + 1

\* The run as a function agrees with the run as a state machine.
RunAgrees ==
    pc \in {"loop", "done"} =>
        process_gcode(lines) =
            [out |-> output_lines, pos |-> last_pos, acc |-> accumulated_distance]

\* The line is neither thermal nor a G0/G1 line containing the letter E.
IsPassThroughLine(line) ==
    /\ ~ThermalPrefix(line)
    /\ ~(Lead2(line) \in {G0, G1} /\ \E i \in 1..Len(line) : line[i][1] = "E")

\* The file holds only pass-through and thermal lines.
OnlyPassOrThermal(ls) ==
    \A i \in 1..Len(ls) : ThermalPrefix(ls[i]) \/ IsPassThroughLine(ls[i])

\* The lines of ls that are not thermal, in order.
RECURSIVE NonThermal(_)
NonThermal(ls) ==
    IF ls = <<>> THEN <<>>
    ELSE IF ThermalPrefix(ls[1]) THEN NonThermal(Tail(ls))
         ELSE <<ls[1]>> \o NonThermal(Tail(ls))

\* C11: on a file of pass-through and thermal lines only, one run writes
\* exactly the pass-through lines in order, and a run on what was written
\* returns it unchanged.
C11_Idempotence ==
    (pc = "done" /\ OnlyPassOrThermal(lines)) =>
        /\ written = NonThermal(lines)
        /\ process_gcode(written).out = written

\* C11 witness: such a file with a thermal line between two pass-through
\* lines has been written back.
C11_Witness ==
    /\ pc = "done"
    /\ Len(lines) = 3
    /\ OnlyPassOrThermal(lines)
    /\ IsPassThroughLine(lines[1])
    /\ ThermalPrefix(lines[2])
    /\ IsPassThroughLine(lines[3])
    /\ Len(written) = 2

\* The lines of ls, thermal lines apart, that carry the axis.
Carriers(ls, axis) ==
    {i \in 1..Len(ls) : ~ThermalPrefix(ls[i]) /\ AxisMatch(ls[i], axis) # {}}

\* The value the line gives the axis: the number after its first occurrence.
Carried(line, axis) == line[MinOf(AxisMatch(line, axis)) + 1][2]

\* C12: each axis of the tracked position holds the value of the most recent
\* non-thermal line carrying it, or its initial value (X = Y = E = 0, F
\* undefined) if there is none; a line leaves the axes it does not carry as
\* they were.
C12_PositionTracking ==
    pc \in {"loop", "done"} =>
        /\ \A a \in Axes :
              IF Carriers(lines, a) = {}
              THEN IF a = "F" THEN a \notin DOMAIN last_pos
                   ELSE a \in DOMAIN last_pos /\ last_pos[a] = 0
              ELSE /\ a \in DOMAIN last_pos
                   /\ last_pos[a] = Carried(lines[MaxOf(Carriers(lines, a))], a)
        /\ Processed =>
              \A a \in DOMAIN prev_pos :
                  (ThermalPrefix(CurLine) \/ AxisMatch(CurLine, a) = {}) =>
                      a \in DOMAIN last_pos /\ last_pos[a] = prev_pos[a]

\* C12 witness: after a segmented depositing move and a line carrying F, a
\* thermal line carries an X that differs from the tracked one.
C12_Witness ==
    /\ Processed
    /\ Len(lines) = 3
    /\ ThermalPrefix(CurLine)
    /\ AxisMatch(CurLine, "X") # {}
    /\ last_pos["X"] # Carried(CurLine, "X")
    /\ "F" \in DOMAIN last_pos
    /\ Pulses(output_lines) >= 1

\* C13: the file is opened for writing only after every line has been
\* processed and the whole output is in the buffer; when reading or processing
\* fails no write is attempted and the file keeps its contents.
C13_NoPartialOverwrite ==
    /\ wopen => /\ pc = "done"
                /\ written = output_lines
                /\ output_lines = process_gcode(lines).out
    /\ pc \in {"open", "loop", "error"} => ~wopen /\ written = <<>>

\* C13 witness: processing failed after lines were buffered, one of them
\* expanded into pulses.
C13_Witness == pc = "error" /\ Len(lines) >= 2 /\ Pulses(output_lines) >= 1

\* C14: only a depositing move changes the accumulator; with value a before
\* the line and planar displacement d it emits N = floor((a + d) / threshold)
\* pulses and leaves a + d - N * threshold; every other line leaves it as it
\* was and emits no pulse.
C14_AccumulatorRule ==
    Processed =>
        IF CurDepositing
        THEN /\ Pulses(Contribution) = (prev_acc + CurDist) \div TRIGGER_DISTANCE_MM
             /\ accumulated_distance =
                    prev_acc + CurDist
                        - ((prev_acc + CurDist) \div TRIGGER_DISTANCE_MM) * TRIGGER_DISTANCE_MM
        ELSE /\ accumulated_distance = prev_acc
             /\ Pulses(Contribution) = 0

\* C14 witness: a depositing move that starts from a remainder, fires two
\* pulses or more and leaves a remainder.
C14_Witness ==
    /\ CurDepositing
    /\ prev_acc > 0
    /\ Pulses(Contribution) >= 2
    /\ accumulated_distance > 0

\* The emitted number v is x / n written with five decimals: it is within
\* half a unit of the last place of x / n.
IsFmt5Of(v, x, n) == 2 * Abs(v * n - x) <= n

\* C15: for a depositing move with N >= 1 the i-th emitted intermediate point
\* is start + (end - start) * i / N on X, Y and E (as written with five
\* decimals), and no intermediate point is the start.
C15_EvenSegmentation ==
    (CurDepositing /\ CurN >= 1) =>
        \A i \in 1..CurN :
            /\ 4 * i - 3 <= Len(Contribution)
            /\ IsMoveLine(Contribution[4 * i - 3])
            /\ \A k \in {"X", "Y", "E"} :
                  IsFmt5Of(extract_coords(Contribution[4 * i - 3])[k],
                           prev_pos[k] * CurN + (CurEnd[k] - prev_pos[k]) * i, CurN)
            /\ extract_coords(Contribution[4 * i - 3]) # XYE(prev_pos)

\* C15 witness: a move cut into several segments whose points do not fall on
\* the grid of five decimals.
C15_Witness ==
    /\ CurDepositing
    /\ CurN >= 3
    /\ \E k \in {"X", "Y", "E"} : (CurEnd[k] - prev_pos[k]) % CurN # 0

\* C16: at every line boundary the accumulator is at least 0 and below the
\* trigger distance.
C16_AccumulatorRange ==
    /\ 0 <= accumulated_distance
    /\ accumulated_distance < TRIGGER_DISTANCE_MM

\* C16 witness: a move brings the accumulated distance exactly onto a
\* multiple of the trigger distance, and the accumulator returns to 0.
C16_Witness ==
    /\ CurDepositing
    /\ CurDist > 0
    /\ (prev_acc + CurDist) % TRIGGER_DISTANCE_MM = 0
    /\ accumulated_distance = 0

\* Every number of the line is written with five decimals.
Decimals5(line) == \A j \in 1..Len(line) : line[j][1] = "#" => line[j][3] = 5

\* C17: a depositing move that does not move in the plane emits no pulse; its
\* output is one rewritten move line to the end position, and the accumulator
\* is as before.
C17_ZeroDisplacement ==
    (/\ CurDepositing
     /\ CurEnd["X"] = prev_pos["X"]
     /\ CurEnd["Y"] = prev_pos["Y"]) =>
        /\ Pulses(Contribution) = 0
        /\ Len(Contribution) = 1
        /\ IsMoveLine(Contribution[1])
        /\ Decimals5(Contribution[1])
        /\ extract_coords(Contribution[1]) = XYE(CurEnd)
        /\ accumulated_distance = prev_acc

\* C17 witness: such a move after pulses have fired, the accumulator holding
\* a remainder.
C17_Witness ==
    /\ CurDepositing
    /\ CurEnd["X"] = prev_pos["X"]
    /\ CurEnd["Y"] = prev_pos["Y"]
    /\ prev_acc > 0
    /\ Pulses(output_lines) >= 1

\* The last of the lines 1..i of the stream that carries the axis, 0 if none.
RECURSIVE LastCarrier(_, _, _)
LastCarrier(ls, axis, i) ==
    IF i = 0 THEN 0
    ELSE IF AxisMatch(ls[i], axis) # {} THEN i ELSE LastCarrier(ls, axis, i - 1)

\* The position tracker of the claims: every line of the stream merges the
\* axis words it carries into the position, from X = Y = E = 0; so each axis
\* holds the value of the last line carrying it.
Track(ls) ==
    [k \in {"X", "Y", "E"} |->
        IF LastCarrier(ls, k, Len(ls)) = 0 THEN 0
        ELSE Carried(ls[LastCarrier(ls, k, Len(ls))], k)]

\* The E value of the i-th line of the last contribution, a move line.
ContributionE(i) == extract_coords(Contribution[i])["E"]

FeedOther == 9000 * Dec5

\* Feed rates put in the place of the tracked one and of the one the line
\* carries.
FeedPairs == {<<0, FeedOther>>, <<FeedOther, 0>>}

\* The line with the value of each F word replaced by v.
Feed(line, v) ==
    [i \in 1..Len(line) |->
        IF i > 1 /\ line[i][1] = "#" /\ line[i - 1][1] = "F"
        THEN Num(v, line[i][3]) ELSE line[i]]

\* The stream with the value of every F word replaced by v.
FeedAll(ls, v) == [i \in 1..Len(ls) |-> Feed(ls[i], v)]

\* The position with the tracked feed rate, if any, replaced by v.
FeedPos(pos, v) == [k \in DOMAIN pos |-> IF k = "F" THEN v ELSE pos[k]]

\* The loop body run on the line processed last with feed rate fl, from the
\* state before it with tracked feed rate fv.
FeedStep(fv, fl) ==
    LineStep([out |-> <<>>, pos |-> FeedPos(prev_pos, fv), acc |-> prev_acc],
             Feed(CurLine, fl))

\* From the state before the line processed last, with any tracked F and any
\* F on the line, the loop body leaves the same accumulator and the same
\* X, Y, E; for a depositing move it emits the same lines, with the same
\* number of pulses, and every line it emits is a pulse line or a move line
\* carrying X, Y and E and no F.
FeedUnwinding ==
    Processed =>
        /\ \A f \in FeedPairs :
              LET alt == FeedStep(f[1], f[2])
              IN  /\ alt.acc = accumulated_distance
                  /\ XYE(alt.pos) = XYE(last_pos)
                  /\ CurDepositing => alt.out = Contribution /\ Pulses(alt.out) = CurN
        /\ CurDepositing =>
              \A i \in 1..Len(Contribution) :
                  \/ Contribution[i] \in {FanOnLine, DwellLine, FanOffLine}
                  \/ IsMoveLine(Contribution[i])

\* The finished run on a stream carrying F words and the run on the stream
\* with other F values end with the same accumulator and with outputs that
\* differ in F values only.
FeedStreams ==
    (pc = "done" /\ \E i \in 1..Len(lines) : AxisMatch(lines[i], "F") # {}) =>
        LET run == process_gcode(FeedAll(lines, FeedOther))
        IN  /\ run.acc = accumulated_distance
            /\ FeedAll(run.out, 0) = FeedAll(output_lines, 0)

\* C19: the feed rate does not reach the output of a depositing move.  The
\* line processed last would have had the same effect under any tracked F
\* and any F of its own (same accumulator, same X, Y, E, and for a depositing
\* move the same emitted lines and pulse count, none carrying F), and a
\* finished run agrees with the run on the stream with other F values.
C19_FeedNonInterference == FeedUnwinding /\ FeedStreams

\* C19 witness: a run has finished whose last line, after a line that set
\* the tracked feed rate, was a depositing move carrying another feed rate
\* and expanded with a pulse.
C19_Witness ==
    /\ pc = "done"
    /\ Processed
    /\ CurDepositing
    /\ "F" \in DOMAIN prev_pos
    /\ "F" \in DOMAIN extract_coords(CurLine)
    /\ prev_pos["F"] # extract_coords(CurLine)["F"]
    /\ CurN >= 1

====
